---- MODULE Spec2Model ----
(***************************************************************************)
(* A model of the ts-validator composition engine: validator nodes, the    *)
(* Result contract and the parse functions of every validator kind.        *)
(*                                                                         *)
(* JavaScript values are records of one shape (so that any two can be      *)
(* compared), validator nodes are records of one shape holding their       *)
(* configuration and children, and every parse function is an operator     *)
(* that follows the statements of the method it models.  A Result carries, *)
(* besides ok/out/error, the trace of the parse and mapper calls made      *)
(* while it was computed ("log"), which is what "is consulted" and "is     *)
(* invoked" are stated about.                                              *)
(***************************************************************************)
EXTENDS Integers, Sequences, FiniteSets, TLC

VARIABLES
    schema,   \* the validator node the caller holds
    input,    \* the value the caller hands to parse
    result,   \* what the most recent parse call returned (NoResult before)
    last,     \* the caller's most recent operation: "new", "set", "parse",
              \* "parseAsync" or "await"
    promise,  \* the promise the most recent parseAsync call returned
    held      \* the reference to the node taken when it was built: what the
              \* node was then, what that object is now, whether schema is
              \* still that object and, if not, the call that derived it

vars == <<schema, input, result, last, promise, held>>

----------------------------------------------------------------------------
(* Bounds of the explored inputs and schemas. *)

MaxLen == 3       \* longest input array
MaxFields == 2    \* most declared fields of an object shape
MaxItems == 2     \* most fixed positions of a tuple
MaxKeys == 2      \* most keys of a record input
MaxCands == 2     \* most candidates of a union
MaxSetters == 2   \* most refinements configured on one leaf validator

----------------------------------------------------------------------------
(* JavaScript values. *)

V(t) == [t |-> t, n |-> 0, s |-> "", keys |-> <<>>, kids |-> <<>>]
Undef == V("undefined")
Null == V("null")
Bool(b) == [V("boolean") EXCEPT !.n = IF b THEN 1 ELSE 0]
Num(n) == [V("number") EXCEPT !.n = n]
Str(s) == [V("string") EXCEPT !.s = s]
Arr(els) == [V("array") EXCEPT !.kids = els]
BigInt(n) == [V("bigint") EXCEPT !.n = n]

\* Numbers that are no safe integers: n + 0.5 (for n >= 0), NaN, the two
\* infinities and 2^53; s tells which, n is the integer part of n + 0.5
Half(n) == [V("number") EXCEPT !.n = n, !.s = ".5"]
NaN == [V("number") EXCEPT !.s = "NaN"]
Infinity == [V("number") EXCEPT !.s = "Infinity"]
NegInfinity == [V("number") EXCEPT !.s = "-Infinity"]
TwoTo53 == [V("number") EXCEPT !.s = "9007199254740992"]

\* Date objects: n is the time value; an invalid Date has the time NaN
Date(time) == [V("date") EXCEPT !.n = time]
InvalidDate == [V("date") EXCEPT !.s = "NaN"]
Obj(ks, vs) == [V("object") EXCEPT !.keys = ks, !.kids = vs]

\* typeof value
TypeOf(v) ==
    CASE v.t = "undefined" -> "undefined"
      [] v.t = "boolean" -> "boolean"
      [] v.t = "number" -> "number"
      [] v.t = "string" -> "string"
      [] v.t = "bigint" -> "bigint"
      [] OTHER -> "object"

\* Array.isArray(value)
IsArray(v) == v.t = "array"

\* value.length of an array or a string
Length(v) == IF v.t = "string" THEN Len(v.s) ELSE Len(v.kids)

\* String(value), as a template literal renders a primitive
JSString(v) ==
    CASE v.t = "undefined" -> "undefined"
      [] v.t = "null" -> "null"
      [] v.t = "boolean" -> (IF v.n = 1 THEN "true" ELSE "false")
      [] v.t = "number" ->
            (IF v.s = "" THEN ToString(v.n)
             ELSE IF v.s = ".5" THEN ToString(v.n) \o v.s ELSE v.s)
      [] v.t = "string" -> v.s
      [] v.t = "bigint" -> ToString(v.n)
      [] v.t = "array" -> "<array>"
      [] OTHER -> "[object Object]"

\* value[i] for an array index i (0-based); undefined past the end
ElemAt(v, i) == IF i < Len(v.kids) THEN v.kids[i + 1] ELSE Undef

\* value[key] for a property name that is not an array index: an own
\* property of a plain object, "length" of an array, undefined otherwise
GetProp(v, key) ==
    IF v.t = "object" /\ \E i \in 1..Len(v.keys) : v.keys[i] = key
    THEN v.kids[CHOOSE i \in 1..Len(v.keys) : v.keys[i] = key]
    ELSE IF v.t = "array" /\ key = "length" THEN Num(Len(v.kids))
    ELSE Undef

\* out[key] = x on a plain object: replaces the property or appends it
SetProp(o, key, x) ==
    IF \E i \in 1..Len(o.keys) : o.keys[i] = key
    THEN [o EXCEPT !.kids[CHOOSE i \in 1..Len(o.keys) : o.keys[i] = key] = x]
    ELSE [o EXCEPT !.keys = Append(o.keys, key), !.kids = Append(o.kids, x)]

----------------------------------------------------------------------------
(* Validator nodes: kind, configuration and children. *)

Node(k) ==
    [k |-> k, lit |-> Undef, f |-> "", disc |-> "",
     min |-> {}, max |-> {}, len |-> {},
     gt |-> {}, gte |-> {}, lt |-> {}, lte |-> {}, flags |-> {},
     keys |-> <<>>, kids |-> <<>>, rest |-> <<>>]

boolean == Node("boolean")
number == Node("number")
string == Node("string")
nulla == Node("null")
date == Node("date")
unknown == Node("unknown")
literal(lit) == [Node("literal") EXCEPT !.lit = lit]
optional(p) == [Node("optional") EXCEPT !.kids = <<p>>]
nullable(p) == [Node("nullable") EXCEPT !.kids = <<p>>]
nullish(p) == [Node("nullish") EXCEPT !.kids = <<p>>]
array(p) == [Node("array") EXCEPT !.kids = <<p>>]
object(ks, ps) == [Node("object") EXCEPT !.keys = ks, !.kids = ps]
union(ps) == [Node("union") EXCEPT !.kids = ps]
tuple(ps) == [Node("tuple") EXCEPT !.kids = ps]
record(p) == [Node("record") EXCEPT !.kids = <<p>>]
discriminatedUnion(discriminator, shapes) ==
    [Node("discriminatedUnion") EXCEPT !.disc = discriminator, !.kids = shapes]

\* p.transform(f): f names one of the total mappers of Mapper below
transform(p, f) == [Node("transform") EXCEPT !.kids = <<p>>, !.f = f]

\* p.default(d): an OptionalV around p, transformed by
\* (v) => v === undefined ? d : v
default(p, d) == [transform(optional(p), "default") EXCEPT !.lit = d]

\* optional(p, d) of the older OptionalV, which holds a default value
optionalDefault(p, defaultValue) ==
    [Node("optionalDefault") EXCEPT !.kids = <<p>>, !.lit = defaultValue]

\* A variant of the default closure that never substitutes
Mapper_keep(p, v) ==
    CASE p.f = "first" -> Str("first")
      [] p.f = "second" -> Str("second")
      [] p.f = "wrap" -> Arr(<<v>>)
      [] p.f = "void" -> Undef
      [] OTHER -> v

\* The mappers handed to transform.  "default" is the closure built by
\* Parser.default; the others stand for caller-supplied total functions
\* whose outputs tell which one ran ("void" returns undefined).
Mapper(p, v) ==
    CASE p.f = "default" -> (IF v = Undef THEN p.lit ELSE v)
      [] p.f = "first" -> Str("first")
      [] p.f = "second" -> Str("second")
      [] p.f = "wrap" -> Arr(<<v>>)
      [] p.f = "void" -> Undef
      [] OTHER -> v

----------------------------------------------------------------------------
(* Results.  error is a string in the code; here it is the sequence of the *)
(* pieces its template literals and joins put together.                    *)

Ok(out, log) ==
    [ok |-> TRUE, out |-> out, err |-> <<>>, log |-> log, threw |-> FALSE]
Fail(err, log) ==
    [ok |-> FALSE, out |-> Undef, err |-> err, log |-> log, threw |-> FALSE]
NoResult == Fail(<<>>, <<>>)

\* A call that returns no Result because an exception was raised in it:
\* threw is set and err names the exception
Throw(e, log) == [Fail(<<e>>, log) EXCEPT !.threw = TRUE]

\* Promises of a Result.  A promise is pending until a microtask settles
\* it; "of" keeps the node and the value parseAsync was called with.
NoPromise == [state |-> "none", value |-> NoResult, of |-> <<>>]
Pending(r, p, value) == [state |-> "pending", value |-> r, of |-> <<p, value>>]

\* One entry of the call trace: a parse call on node p with value v, or a
\* call of p's mapper on v; d is the depth of the call below the parse call
\* the trace belongs to (0: that call itself, 1: a call it makes, ...).
Event(ev, p, v) == [ev |-> ev, p |-> p, v |-> v, d |-> 0]

\* The trace of a callee as part of its caller's trace
Nested(log) == [i \in 1..Len(log) |-> [log[i] EXCEPT !.d = @ + 1]]

RECURSIVE Parse(_, _)

----------------------------------------------------------------------------
(* Leaf validators. *)

\* BooleanV.parse
BooleanV_parse(p, value) ==
    IF TypeOf(value) # "boolean" THEN Fail(<<"Not boolean">>, <<>>)
    ELSE Ok(value, <<>>)

\* A variant whose length bounds are exclusive
StringV_parse_exclusive(p, value) ==
    IF TypeOf(value) # "string" THEN Fail(<<"Not string">>, <<>>)
    ELSE IF \E m \in p.min : Length(value) <= m
    THEN Fail(<<"String length < ", ToString(CHOOSE m \in p.min : TRUE)>>, <<>>)
    ELSE IF \E m \in p.max : Length(value) >= m
    THEN Fail(<<"String length > ", ToString(CHOOSE m \in p.max : TRUE)>>, <<>>)
    ELSE Ok(value, <<>>)

\* StringV.parse
StringV_parse(p, value) ==
    IF TypeOf(value) # "string" THEN Fail(<<"Not string">>, <<>>)
    ELSE IF \E m \in p.min : Length(value) < m
    THEN Fail(<<"String length < ", ToString(CHOOSE m \in p.min : TRUE)>>, <<>>)
    ELSE IF \E m \in p.max : Length(value) > m
    THEN Fail(<<"String length > ", ToString(CHOOSE m \in p.max : TRUE)>>, <<>>)
    ELSE Ok(value, <<>>)

\* Number.isInteger / isSafeInteger / isFinite
NumIsInteger(v) == v.s \in {"", "9007199254740992"}
NumIsSafeInteger(v) == v.s = ""
NumIsFinite(v) == v.s \in {"", ".5", "9007199254740992"}

\* v < m, v <= m, v > m, v >= m for a number v and an integer m (every
\* comparison with NaN is false)
NumLT(v, m) ==
    CASE v.s = "" -> v.n < m
      [] v.s = ".5" -> v.n < m
      [] v.s = "-Infinity" -> TRUE
      [] OTHER -> FALSE
\* A variant of v <= m that is false at the boundary
NumLE_strict(v, m) == NumLT(v, m)

NumLE(v, m) ==
    CASE v.s = "" -> v.n <= m
      [] v.s = ".5" -> v.n < m
      [] v.s = "-Infinity" -> TRUE
      [] OTHER -> FALSE
NumGT(v, m) ==
    CASE v.s = "" -> v.n > m
      [] v.s = ".5" -> v.n >= m
      [] v.s \in {"Infinity", "9007199254740992"} -> TRUE
      [] OTHER -> FALSE
NumGE(v, m) ==
    CASE v.s = "" -> v.n >= m
      [] v.s = ".5" -> v.n >= m
      [] v.s \in {"Infinity", "9007199254740992"} -> TRUE
      [] OTHER -> FALSE

\* NumberV.parse
NumberV_parse(p, value) ==
    LET One(S) == ToString(CHOOSE m \in S : TRUE)
    IN  IF TypeOf(value) # "number" THEN Fail(<<"Not number">>, <<>>)
        ELSE IF "int" \in p.flags /\ ~NumIsInteger(value)
        THEN Fail(<<"Not integer">>, <<>>)
        ELSE IF "safe" \in p.flags /\ ~NumIsSafeInteger(value)
        THEN Fail(<<"Not safe integer">>, <<>>)
        ELSE IF "finite" \in p.flags /\ ~NumIsFinite(value)
        THEN Fail(<<"Not finite">>, <<>>)
        ELSE IF \E m \in p.gt : NumLE(value, m)
        THEN Fail(<<"Number not gt ", One(p.gt)>>, <<>>)
        ELSE IF \E m \in p.gte : NumLT(value, m)
        THEN Fail(<<"Number not gte ", One(p.gte)>>, <<>>)
        ELSE IF \E m \in p.lt : NumGE(value, m)
        THEN Fail(<<"Number not lt ", One(p.lt)>>, <<>>)
        ELSE IF \E m \in p.lte : NumGT(value, m)
        THEN Fail(<<"Number not lte ", One(p.lte)>>, <<>>)
        ELSE IF \E m \in p.min : NumLT(value, m)
        THEN Fail(<<"Number < ", One(p.min)>>, <<>>)
        ELSE IF \E m \in p.max : NumGT(value, m)
        THEN Fail(<<"Number > ", One(p.max)>>, <<>>)
        ELSE IF "positive" \in p.flags /\ NumLE(value, 0)
        THEN Fail(<<"Number not positive">>, <<>>)
        ELSE IF "nonpositive" \in p.flags /\ NumGT(value, 0)
        THEN Fail(<<"Number not non-positive">>, <<>>)
        ELSE IF "negative" \in p.flags /\ NumGE(value, 0)
        THEN Fail(<<"Number not negative">>, <<>>)
        ELSE IF "nonnegative" \in p.flags /\ NumLT(value, 0)
        THEN Fail(<<"Number not non-negative">>, <<>>)
        ELSE Ok(value, <<>>)

\* Date.parse of a string: the time of the one ISO date-time string the
\* explored inputs hold, as a set that is empty for a string that is no date
DateParse(str) == IF str = "1970-01-01T00:00:00.002Z" THEN {2} ELSE {}

\* new Date(value) raises a TypeError for a BigInt: a primitive that is no
\* string is converted with ToNumber, which has no conversion of a BigInt
NewDateThrows(value) == value.t = "bigint"

\* new Date(value): a copy of a Date, the time a number or a boolean or
\* null converts to, the parsed time of a string; undefined, a plain
\* object and the empty array give an invalid Date
NewDate(value) ==
    CASE value.t = "date" -> value
      [] value.t = "null" -> Date(0)
      [] value.t = "boolean" -> Date(value.n)
      [] value.t = "number" ->
            (IF value.s \in {"", ".5"} THEN Date(value.n) ELSE InvalidDate)
      [] value.t = "string" ->
            (IF DateParse(value.s) # {}
             THEN Date(CHOOSE time \in DateParse(value.s) : TRUE)
             ELSE InvalidDate)
      [] OTHER -> InvalidDate

\* isNaN(date.getTime())
IsInvalidDate(d) == d.s = "NaN"

\* d < e and d > e for two Dates (false when either is invalid)
DateLT(d, e) == ~IsInvalidDate(d) /\ ~IsInvalidDate(e) /\ d.n < e.n
DateGT(d, e) == ~IsInvalidDate(d) /\ ~IsInvalidDate(e) /\ d.n > e.n

\* DateV.parse
DateV_parse(p, value) ==
    LET d == NewDate(value)
    IN  IF NewDateThrows(value) THEN Throw("TypeError", <<>>)
        ELSE IF IsInvalidDate(d) THEN Fail(<<"Invalid date format">>, <<>>)
        ELSE IF \E m \in p.min : DateLT(d, m) THEN Fail(<<"Date < min">>, <<>>)
        ELSE IF \E m \in p.max : DateGT(d, m) THEN Fail(<<"Date > max">>, <<>>)
        ELSE Ok(d, <<>>)

\* a === b for two primitives
StrictEquals(a, b) == a = b /\ a # NaN

\* LiteralV.parse
LiteralV_parse(p, value) ==
    IF ~StrictEquals(value, p.lit) THEN Fail(<<"Not ", JSString(p.lit)>>, <<>>)
    ELSE Ok(value, <<>>)

\* NullV.parse
NullV_parse(p, value) ==
    IF value # Null THEN Fail(<<"Not null">>, <<>>)
    ELSE Ok(Null, <<>>)

\* UnknownV.parse
UnknownV_parse(p, value) == Ok(value, <<>>)

----------------------------------------------------------------------------
(* Modifier combinators. *)

\* A variant that calls the mapper before it looks at the inner Result
TransformV_parse_early(p, value) ==
    LET parsedResult == Parse(p.kids[1], value)
        called == Append(parsedResult.log, Event("map", p, parsedResult.out))
    IN  IF ~parsedResult.ok THEN [parsedResult EXCEPT !.log = called]
        ELSE Ok(Mapper(p, parsedResult.out), called)

\* TransformV.parse
TransformV_parse(p, value) ==
    LET parsedResult == Parse(p.kids[1], value)
    IN  IF ~parsedResult.ok THEN parsedResult
        ELSE Ok(Mapper(p, parsedResult.out),
                Append(parsedResult.log, Event("map", p, parsedResult.out)))

\* A variant that turns a failure of the inner parser into absence
OptionalV_parse_lenient(p, value) ==
    IF TypeOf(value) = "undefined" THEN Ok(Undef, <<>>)
    ELSE LET res == Parse(p.kids[1], value)
         IN  IF res.ok THEN res ELSE Ok(Undef, res.log)

\* OptionalV.parse
OptionalV_parse(p, value) ==
    IF TypeOf(value) = "undefined" THEN Ok(Undef, <<>>)
    ELSE Parse(p.kids[1], value)

\* OptionalV.parse of the older OptionalV, built with a default value
OptionalDefaultV_parse(p, value) ==
    IF TypeOf(value) = "undefined"
    THEN IF p.lit # Undef THEN Ok(p.lit, <<>>) ELSE Ok(Undef, <<>>)
    ELSE Parse(p.kids[1], value)

\* A variant that intercepts undefined as well (value == null)
NullableV_parse_loose(p, value) ==
    IF value = Null \/ value = Undef THEN Ok(Null, <<>>)
    ELSE Parse(p.kids[1], value)

\* NullableV.parse
NullableV_parse(p, value) ==
    IF value = Null THEN Ok(Null, <<>>)
    ELSE Parse(p.kids[1], value)

\* NullishV.parse
NullishV_parse(p, value) ==
    IF value = Null \/ value = Undef THEN Ok(value, <<>>)
    ELSE Parse(p.kids[1], value)

----------------------------------------------------------------------------
(* ArrayV. *)

\* The three length checks of ArrayV.parse, in the code's order: the error
\* of the first one that fires, or <<>> when none does.
ArrayLengthError(p, value) ==
    IF \E n \in p.len : Length(value) = n
    THEN <<"Array length !== ", ToString(CHOOSE n \in p.len : TRUE)>>
    ELSE IF \E m \in p.min : Length(value) < m
    THEN <<"Array length < ", ToString(CHOOSE m \in p.min : TRUE)>>
    ELSE IF \E m \in p.max : Length(value) > m
    THEN <<"Array length > ", ToString(CHOOSE m \in p.max : TRUE)>>
    ELSE <<>>

\* The element loop of ArrayV.parse, from the i-th element (1-based) on,
\* with the outputs pushed so far.
RECURSIVE ArrayLoop(_, _, _, _, _)

\* A variant that goes on validating after an element failed and reports
\* the first failure at the end
ArrayLoop_all(p, value, i, parsed, log) ==
    IF i > Len(value.kids) THEN Ok(Arr(parsed), log)
    ELSE LET res == Parse(p.kids[1], value.kids[i])
             more == ArrayLoop(p, value, i + 1, parsed, log \o res.log)
         IN  IF ~res.ok
             THEN Fail(<<"index: ", ToString(i - 1), ", [">> \o res.err \o <<"]">>,
                       more.log)
             ELSE ArrayLoop(p, value, i + 1, Append(parsed, res.out),
                            log \o res.log)

ArrayLoop(p, value, i, parsed, log) ==
    IF i > Len(value.kids) THEN Ok(Arr(parsed), log)
    ELSE LET res == Parse(p.kids[1], value.kids[i])
         IN  IF ~res.ok
             THEN Fail(<<"index: ", ToString(i - 1), ", [">> \o res.err \o <<"]">>,
                       log \o res.log)
             ELSE ArrayLoop(p, value, i + 1, Append(parsed, res.out),
                            log \o res.log)

\* ArrayV.parse
ArrayV_parse(p, value) ==
    IF ~IsArray(value) THEN Fail(<<"Not array">>, <<>>)
    ELSE IF ArrayLengthError(p, value) # <<>>
    THEN Fail(ArrayLengthError(p, value), <<>>)
    ELSE ArrayLoop(p, value, 1, <<>>, <<>>)

----------------------------------------------------------------------------
(* ObjectV. *)

\* The first guard of collectErrors: typeof value !== "object" || value === null
NotObject(value) == TypeOf(value) # "object" \/ value = Null

\* The loop of collectErrors over the keys of the shape, from the i-th key
\* on.  errors is a sequence of [key, error] records.
RECURSIVE FieldLoop(_, _, _, _, _, _, _)

\* A variant that leaves the loop at the first field error
FieldLoop_break(p, value, path, i, out, errors, log) ==
    IF i > Len(p.keys) THEN [out |-> out, errors |-> errors, log |-> log]
    ELSE LET key == p.keys[i]
             newPath == IF path # "" THEN path \o "." \o key ELSE key
             res == Parse(p.kids[i], GetProp(value, key))
         IN  IF ~res.ok
             THEN [out |-> out,
                   errors |-> Append(errors, [key |-> newPath, error |-> res.err]),
                   log |-> log \o res.log]
             ELSE FieldLoop(p, value, path, i + 1, SetProp(out, key, res.out),
                            errors, log \o res.log)

\* A variant that validates only the fields the value has (key in value)
FieldLoop_present(p, value, path, i, out, errors, log) ==
    IF i > Len(p.keys) THEN [out |-> out, errors |-> errors, log |-> log]
    ELSE LET key == p.keys[i]
             newPath == IF path # "" THEN path \o "." \o key ELSE key
             res == Parse(p.kids[i], GetProp(value, key))
         IN  IF ~\E j \in 1..Len(value.keys) : value.keys[j] = key
             THEN FieldLoop(p, value, path, i + 1, out, errors, log)
             ELSE IF ~res.ok
             THEN FieldLoop(p, value, path, i + 1, out,
                            Append(errors, [key |-> newPath, error |-> res.err]),
                            log \o res.log)
             ELSE FieldLoop(p, value, path, i + 1, SetProp(out, key, res.out),
                            errors, log \o res.log)

FieldLoop(p, value, path, i, out, errors, log) ==
    IF i > Len(p.keys) THEN [out |-> out, errors |-> errors, log |-> log]
    ELSE LET key == p.keys[i]
             newPath == IF path # "" THEN path \o "." \o key ELSE key
             res == Parse(p.kids[i], GetProp(value, key))
         IN  IF ~res.ok
             THEN FieldLoop(p, value, path, i + 1, out,
                            Append(errors, [key |-> newPath, error |-> res.err]),
                            log \o res.log)
             ELSE FieldLoop(p, value, path, i + 1, SetProp(out, key, res.out),
                            errors, log \o res.log)

\* A variant whose output starts as a copy of the value ({ ...value })
collectErrors_spread(p, value, path) ==
    IF NotObject(value)
    THEN [out |-> Obj(<<>>, <<>>),
          errors |-> <<[key |-> path, error |-> <<"Not object">>]>>,
          log |-> <<>>]
    ELSE FieldLoop(p, value, path, 1,
                   IF value.t = "object" THEN value ELSE Obj(<<>>, <<>>),
                   <<>>, <<>>)

\* ObjectV.collectErrors
collectErrors(p, value, path) ==
    IF NotObject(value)
    THEN [out |-> Obj(<<>>, <<>>),
          errors |-> <<[key |-> path, error |-> <<"Not object">>]>>,
          log |-> <<>>]
    ELSE FieldLoop(p, value, path, 1, Obj(<<>>, <<>>), <<>>, <<>>)

\* errors.map(({ key, error }) => `${key}: ${error}`).join(", ")
RECURSIVE errorMessages(_)
errorMessages(errors) ==
    IF errors = <<>> THEN <<>>
    ELSE <<errors[1].key, ": ">> \o errors[1].error
         \o (IF Len(errors) > 1 THEN <<", ">> ELSE <<>>)
         \o errorMessages(Tail(errors))

\* ObjectV.parse
ObjectV_parse(p, value) ==
    LET ce == collectErrors(p, value, "")
    IN  IF Len(ce.errors) > 0 THEN Fail(errorMessages(ce.errors), ce.log)
        ELSE Ok(ce.out, ce.log)

\* ObjectV.field: this.shape[key], as a sequence that is empty when the
\* shape does not declare the key (undefined in the code)
ObjectV_field(p, key) ==
    IF \E i \in 1..Len(p.keys) : p.keys[i] = key
    THEN <<p.kids[CHOOSE i \in 1..Len(p.keys) : p.keys[i] = key]>>
    ELSE <<>>

\* An argument object without properties: {}
NoArg == [keys |-> <<>>, vals |-> <<>>]

\* What an argument object {key: val, ...} holds under key: a sequence
\* that is empty when it has no such property
ArgGet(arg, key) ==
    IF \E i \in 1..Len(arg.keys) : arg.keys[i] = key
    THEN <<arg.vals[CHOOSE i \in 1..Len(arg.keys) : arg.keys[i] = key]>>
    ELSE <<>>

\* ObjectV.pick: the fields named by the keys of picked, in their order
ObjectV_pick(p, picked) ==
    object(picked.keys,
           [i \in 1..Len(picked.keys) |-> ObjectV_field(p, picked.keys[i])[1]])

\* ObjectV.omit: the fields of the shape, but those for which omit holds
\* true
ObjectV_omit(p, omit) ==
    LET kept == SelectSeq([i \in 1..Len(p.keys) |-> i],
                          LAMBDA i : ArgGet(omit, p.keys[i]) # <<TRUE>>)
    IN  object([j \in 1..Len(kept) |-> p.keys[kept[j]]],
               [j \in 1..Len(kept) |-> p.kids[kept[j]]])

\* The loop of ObjectV.extend over the keys of the extension shape, from
\* the i-th on: newShape[key] = extensionShape[key]
RECURSIVE ExtendLoop(_, _, _)

\* A variant in which a field of the receiver wins over the extension's
ExtendLoop_keep(newShape, extensionShape, i) ==
    IF i > Len(extensionShape.keys) THEN newShape
    ELSE ExtendLoop(
             IF ObjectV_field(newShape, extensionShape.keys[i]) # <<>>
             THEN newShape
             ELSE SetProp(newShape, extensionShape.keys[i],
                          extensionShape.vals[i]),
             extensionShape, i + 1)

ExtendLoop(newShape, extensionShape, i) ==
    IF i > Len(extensionShape.keys) THEN newShape
    ELSE ExtendLoop(SetProp(newShape, extensionShape.keys[i],
                            extensionShape.vals[i]),
                    extensionShape, i + 1)

\* ObjectV.extend: a copy of the shape with the extension's fields assigned
ObjectV_extend(p, extensionShape) ==
    ExtendLoop(object(p.keys, p.kids), extensionShape, 1)

\* A variant that makes the fields of nested objects optional as well
RECURSIVE ObjectV_partial_deep(_)
ObjectV_partial_deep(p) ==
    object(p.keys,
           [i \in 1..Len(p.keys) |->
               optional(IF p.kids[i].k = "object"
                        THEN ObjectV_partial_deep(p.kids[i])
                        ELSE p.kids[i])])

\* ObjectV.partial: every field's parser wrapped in an OptionalV
ObjectV_partial(p) ==
    object(p.keys, [i \in 1..Len(p.keys) |-> optional(p.kids[i])])

----------------------------------------------------------------------------
(* UnionV. *)

\* The loop of UnionV.parse over the candidates, from the i-th on.
RECURSIVE UnionLoop(_, _, _, _)

\* A variant that lets a later accepting candidate override an earlier one
UnionLoop_last(p, value, i, log) ==
    IF i > Len(p.kids) THEN Fail(<<"Not in or">>, log)
    ELSE LET res == Parse(p.kids[i], value)
             later == UnionLoop(p, value, i + 1, log \o res.log)
         IN  IF res.ok /\ ~later.ok THEN [res EXCEPT !.log = log \o res.log]
             ELSE later

\* A variant that returns the failure of the last candidate as the union's
UnionLoop_ownError(p, value, i, log) ==
    IF i > Len(p.kids) THEN Fail(<<"Not in or">>, log)
    ELSE LET res == Parse(p.kids[i], value)
         IN  IF res.ok \/ i = Len(p.kids) THEN [res EXCEPT !.log = log \o res.log]
             ELSE UnionLoop(p, value, i + 1, log \o res.log)

UnionLoop(p, value, i, log) ==
    IF i > Len(p.kids) THEN Fail(<<"Not in or">>, log)
    ELSE LET res == Parse(p.kids[i], value)
         IN  IF res.ok THEN [res EXCEPT !.log = log \o res.log]
             ELSE UnionLoop(p, value, i + 1, log \o res.log)

\* UnionV.parse
UnionV_parse(p, value) == UnionLoop(p, value, 1, <<>>)

----------------------------------------------------------------------------
(* TupleV. *)

\* A variant that only rejects an array shorter than the fixed positions
TupleLengthMismatch_short(p, value) ==
    p.rest = <<>> /\ Length(value) < Len(p.kids)

\* The length guard of TupleV.parse
TupleLengthMismatch(p, value) ==
    p.rest = <<>> /\ Length(value) # Len(p.kids)

\* The loop over the positions from i (0-based) up to, not including, n,
\* every one of them parsed by ps[i] when fixed and by the rest parser
\* otherwise; out is the output array so far.
RECURSIVE TupleLoop(_, _, _, _, _, _)
TupleLoop(p, value, i, n, out, log) ==
    IF i >= n THEN Ok(out, log)
    ELSE LET parser == IF i < Len(p.kids) THEN p.kids[i + 1] ELSE p.rest[1]
             res == Parse(parser, ElemAt(value, i))
         IN  IF ~res.ok THEN Fail(res.err, log \o res.log)
             ELSE TupleLoop(p, value, i + 1, n, Append(out, res.out),
                            log \o res.log)

\* TupleV.parse
TupleV_parse(p, value) ==
    IF ~IsArray(value) THEN Fail(<<"Not array">>, <<>>)
    ELSE IF TupleLengthMismatch(p, value) THEN Fail(<<"Not exact length">>, <<>>)
    ELSE LET fixed == TupleLoop(p, value, 0, Len(p.kids), <<>>, <<>>)
         IN  IF ~fixed.ok THEN fixed
             ELSE IF p.rest # <<>>
             THEN LET all == TupleLoop(p, value, Len(p.kids), Length(value),
                                       fixed.out, fixed.log)
                  IN  IF ~all.ok THEN all ELSE Ok(Arr(all.out), all.log)
             ELSE Ok(Arr(fixed.out), fixed.log)

\* TupleV.rest
TupleV_rest(p, restParser) == [p EXCEPT !.rest = <<restParser>>]

----------------------------------------------------------------------------
(* RecordV. *)

\* The three guards of RecordV.parse: the error of the first that fires, or
\* <<>> when the value is a keyed collection.
RecordTypeError(value) ==
    IF TypeOf(value) # "object" THEN <<"Not object">>
    ELSE IF IsArray(value) THEN <<"Array instead of object">>
    ELSE IF value = Null THEN <<"Null">>
    ELSE <<>>

\* The loop of RecordV.parse over the keys of the value, from the i-th on.
RECURSIVE RecordLoop(_, _, _, _, _)

\* A variant that skips a rejected value instead of returning its failure
RecordLoop_skip(p, value, i, out, log) ==
    IF i > Len(value.keys) THEN Ok(out, log)
    ELSE LET key == value.keys[i]
             res == Parse(p.kids[1], GetProp(value, key))
         IN  IF ~res.ok THEN RecordLoop(p, value, i + 1, out, log \o res.log)
             ELSE RecordLoop(p, value, i + 1, SetProp(out, key, res.out),
                             log \o res.log)

RecordLoop(p, value, i, out, log) ==
    IF i > Len(value.keys) THEN Ok(out, log)
    ELSE LET key == value.keys[i]
             res == Parse(p.kids[1], GetProp(value, key))
         IN  IF ~res.ok THEN [res EXCEPT !.log = log \o res.log]
             ELSE RecordLoop(p, value, i + 1, SetProp(out, key, res.out),
                             log \o res.log)

\* RecordV.parse
RecordV_parse(p, value) ==
    IF RecordTypeError(value) # <<>> THEN Fail(RecordTypeError(value), <<>>)
    ELSE RecordLoop(p, value, 1, Obj(<<>>, <<>>), <<>>)

----------------------------------------------------------------------------
(* DiscriminatedUnionV. *)

\* constructDiscriminatorParsers: the pairs of a candidate's validator of
\* the discriminator field and the candidate, for the candidates that
\* declare the field, in the order of the candidates
RECURSIVE constructDiscriminatorParsers(_, _)

\* A variant that keeps the first candidate only
constructDiscriminatorParsers_first(p, i) ==
    IF i > 1 \/ p.kids = <<>> THEN <<>>
    ELSE IF ObjectV_field(p.kids[1], p.disc) = <<>> THEN <<>>
    ELSE <<[discriminatorParser |-> ObjectV_field(p.kids[1], p.disc)[1],
            shape |-> p.kids[1]]>>

constructDiscriminatorParsers(p, i) ==
    IF i > Len(p.kids) THEN <<>>
    ELSE LET discriminatedShape == ObjectV_field(p.kids[i], p.disc)
         IN  (IF discriminatedShape # <<>>
              THEN <<[discriminatorParser |-> discriminatedShape[1],
                      shape |-> p.kids[i]]>>
              ELSE <<>>)
             \o constructDiscriminatorParsers(p, i + 1)

\* The loop of DiscriminatedUnionV.parse over the discriminator parsers,
\* from the i-th on.
RECURSIVE DiscriminatorLoop(_, _, _, _, _, _)

\* A variant that goes on to the next candidate when the matched one
\* rejects the value
DiscriminatorLoop_fallThrough(p, list, value, discriminatorFromValue, i, log) ==
    IF i > Len(list)
    THEN Fail(<<"No parser found for discriminator value: ",
                JSString(discriminatorFromValue)>>, log)
    ELSE LET res == Parse(list[i].discriminatorParser, discriminatorFromValue)
             full == Parse(list[i].shape, value)
         IN  IF res.ok /\ full.ok
             THEN [full EXCEPT !.log = log \o res.log \o full.log]
             ELSE IF res.ok
             THEN DiscriminatorLoop(p, list, value, discriminatorFromValue,
                                    i + 1, log \o res.log \o full.log)
             ELSE DiscriminatorLoop(p, list, value, discriminatorFromValue,
                                    i + 1, log \o res.log)

\* A variant that parses the value with every candidate before looking at
\* the discriminator
DiscriminatorLoop_eager(p, list, value, discriminatorFromValue, i, log) ==
    IF i > Len(list)
    THEN Fail(<<"No parser found for discriminator value: ",
                JSString(discriminatorFromValue)>>, log)
    ELSE LET res == Parse(list[i].discriminatorParser, discriminatorFromValue)
             full == Parse(list[i].shape, value)
         IN  IF res.ok THEN [full EXCEPT !.log = log \o res.log \o full.log]
             ELSE DiscriminatorLoop(p, list, value, discriminatorFromValue,
                                    i + 1, log \o full.log \o res.log)

DiscriminatorLoop(p, list, value, discriminatorFromValue, i, log) ==
    IF i > Len(list)
    THEN Fail(<<"No parser found for discriminator value: ",
                JSString(discriminatorFromValue)>>, log)
    ELSE LET res == Parse(list[i].discriminatorParser, discriminatorFromValue)
             full == Parse(list[i].shape, value)
         IN  IF res.ok THEN [full EXCEPT !.log = log \o res.log \o full.log]
             ELSE DiscriminatorLoop(p, list, value, discriminatorFromValue,
                                    i + 1, log \o res.log)

\* DiscriminatedUnionV.parse
DiscriminatedUnionV_parse(p, value) ==
    LET discriminatorFromValue == GetProp(value, p.disc)
    IN  IF TypeOf(value) # "object" THEN Fail(<<"Not object">>, <<>>)
        ELSE IF value = Null THEN Fail(<<"Empty object">>, <<>>)
        ELSE IF IsArray(value) THEN Fail(<<"Array">>, <<>>)
        ELSE IF discriminatorFromValue = Undef
        THEN Fail(<<"Discriminator key '", p.disc, "' not found">>, <<>>)
        ELSE DiscriminatorLoop(p, constructDiscriminatorParsers(p, 1), value,
                               discriminatorFromValue, 1, <<>>)

----------------------------------------------------------------------------
(* parse, dispatched on the kind of the node; the call is recorded. *)

ParseKind(p, value) ==
    CASE p.k = "boolean" -> BooleanV_parse(p, value)
      [] p.k = "string" -> StringV_parse(p, value)
      [] p.k = "number" -> NumberV_parse(p, value)
      [] p.k = "date" -> DateV_parse(p, value)
      [] p.k = "literal" -> LiteralV_parse(p, value)
      [] p.k = "null" -> NullV_parse(p, value)
      [] p.k = "unknown" -> UnknownV_parse(p, value)
      [] p.k = "transform" -> TransformV_parse(p, value)
      [] p.k = "optional" -> OptionalV_parse(p, value)
      [] p.k = "optionalDefault" -> OptionalDefaultV_parse(p, value)
      [] p.k = "nullable" -> NullableV_parse(p, value)
      [] p.k = "nullish" -> NullishV_parse(p, value)
      [] p.k = "array" -> ArrayV_parse(p, value)
      [] p.k = "object" -> ObjectV_parse(p, value)
      [] p.k = "union" -> UnionV_parse(p, value)
      [] p.k = "tuple" -> TupleV_parse(p, value)
      [] p.k = "record" -> RecordV_parse(p, value)
      [] p.k = "discriminatedUnion" -> DiscriminatedUnionV_parse(p, value)

\* The calls of a trace in which an exception is raised
Raising(log) ==
    {i \in 1..Len(log) :
        /\ log[i].ev = "parse" /\ log[i].p.k = "date"
        /\ NewDateThrows(log[i].v)}

\* parser.parse(value).  No method catches an exception, so one raised in
\* a call that parse makes ends every caller at that call: the trace stops
\* there and no Result is returned
Parse(p, value) ==
    LET r == ParseKind(p, value)
        log == <<Event("parse", p, value)>> \o Nested(r.log)
    IN  IF Raising(log) = {} THEN [r EXCEPT !.log = log]
        ELSE Throw("TypeError",
                   SubSeq(log, 1, CHOOSE i \in Raising(log) :
                                      \A j \in Raising(log) : i <= j))

\* A variant that rejects with the error of a validation failure
parseAsync_rejecting(p, value) ==
    LET r == Parse(p, value)
    IN  IF r.ok THEN Pending(r, p, value)
        ELSE [Pending(r, p, value) EXCEPT !.state = "rejecting"]

\* Parser.parseAsync: the promise of an async function that returns
\* Promise.resolve(this.parse(value)); parse has run when the call returns
\* an exception raised in parse rejects the promise
parseAsync(p, value) ==
    LET r == Parse(p, value)
    IN  IF r.threw THEN [Pending(r, p, value) EXCEPT !.state = "rejecting"]
        ELSE Pending(r, p, value)

----------------------------------------------------------------------------
(* The schemas and inputs explored. *)

\* Sequences over S of length at most n, and those without a repeated entry
SeqsUpTo(S, n) == UNION {[1..k -> S] : k \in 0..n}
DistinctSeqsUpTo(S, n) ==
    {q \in SeqsUpTo(S, n) : \A i, j \in 1..Len(q) : q[i] = q[j] => i = j}

\* The declared field names of a shape, as a set
KeysOf(p) == {p.keys[i] : i \in 1..Len(p.keys)}

\* Property names; none is an array index, so that a shape enumerates its
\* fields in the order they were declared in
FieldNames == {"a", "b", "c"}

PrimVals == {Undef, Null, Bool(TRUE), Num(1), Str("s")}
FieldVals == {Undef, Null, Num(1), Str("s")}

\* Plain objects: every choice of keys among FieldNames, in the order
\* a, b, c, with values among FieldVals (among them, undefined itself)
Absent == V("absent")
FieldOrder == <<"a", "b", "c">>
ObjFrom(f) ==
    LET ks == SelectSeq(FieldOrder, LAMBDA k : f[k] # Absent)
    IN  Obj(ks, [i \in 1..Len(ks) |-> f[ks[i]]])
PlainObjects == {ObjFrom(f) : f \in [FieldNames -> FieldVals \cup {Absent}]}

\* Plain objects whose keys come in any order (the order for-in visits
\* them in), at most MaxKeys of them
OrderedObjects ==
    UNION {{Obj(ks, vs) : vs \in [1..Len(ks) -> FieldVals]} :
              ks \in DistinctSeqsUpTo(FieldNames, MaxKeys)}

TupleElemVals == {Undef, Num(1), Str("s")}
ArrayElemVals == {Num(1), Num(2), Str("s")}
TupleArrays == {Arr(q) : q \in SeqsUpTo(TupleElemVals, MaxLen)}
ElemArrays == {Arr(q) : q \in SeqsUpTo(ArrayElemVals, MaxLen)}

FieldParsers ==
    {string, number, optional(string), nullish(number), default(number, Num(7))}
ObjectSchemas ==
    UNION {{object(ks, ps) : ps \in [1..Len(ks) -> FieldParsers]} :
              ks \in DistinctSeqsUpTo(FieldNames, MaxFields)}
ObjectInputs == PrimVals \cup PlainObjects \cup {Arr(<<>>), Arr(<<Str("s")>>)}

ItemParsers == {string, number, optional(number)}
RestParsers == {number, optional(string)}
TupleSchemas == {tuple(ps) : ps \in SeqsUpTo(ItemParsers, MaxItems) \ {<<>>}}
TupleInputs == PrimVals \cup TupleArrays \cup {Obj(<<"a">>, <<Num(1)>>)}

ElemParsers == {number, transform(string, "wrap")}
ArraySchemas == {array(p) : p \in ElemParsers}
ArrayInputs == PrimVals \cup ElemArrays \cup {Obj(<<"a">>, <<Num(1)>>)}
LengthArgs == 0..MaxLen

ValueParsers == {string, nullish(number), transform(number, "wrap")}
RecordSchemas == {record(p) : p \in ValueParsers}
RecordInputs == PrimVals \cup OrderedObjects \cup {Arr(<<>>), Arr(<<Str("s")>>)}

Candidates ==
    {transform(literal(Num(1)), "first"), transform(number, "second"),
     literal(Num(1)), number, string}
UnionSchemas == {union(ps) : ps \in SeqsUpTo(Candidates, MaxCands)}
UnionInputs == PrimVals \cup {Num(2), Arr(<<>>), Obj(<<>>, <<>>)}

\* Leaf validators, before any setter is called, and their inputs
LiteralVals == {Null, Undef, Bool(TRUE), Num(1), Str("s"), NaN}
LeafSchemas ==
    {boolean, string, number, date, nulla, unknown}
        \cup {literal(l) : l \in LiteralVals}
LeafInputs ==
    {Undef, Null, Bool(TRUE), Bool(FALSE),
     Num(-1), Num(0), Num(1), Num(2), Half(0), Half(1),
     NaN, Infinity, NegInfinity, TwoTo53,
     Str(""), Str("s"), Str("ab"), Str("1970-01-01T00:00:00.002Z"),
     Date(0), Date(1), Date(3), InvalidDate, BigInt(1),
     Arr(<<>>), Obj(<<>>, <<>>)}
StringLengthArgs == 0..2
NumberArgs == {0, 1}
DateArgs == {Date(1), Date(2)}
NumberBounds == {"min", "max", "gt", "gte", "lt", "lte"}
NumberFlags ==
    {"int", "positive", "nonpositive", "negative", "nonnegative", "safe",
     "finite"}

\* Object validators to derive from, one of their fields possibly an object
\* validator itself, the arguments of pick, omit and extend, and inputs
NestedShape == object(<<"a">>, <<string>>)
DeriveParsers == {string, number, NestedShape}
DeriveSchemas ==
    UNION {{object(ks, ps) : ps \in [1..Len(ks) -> DeriveParsers]} :
              ks \in DistinctSeqsUpTo(FieldNames, MaxFields)}
PickArgs(p) ==
    {[keys |-> ks, vals |-> [i \in 1..Len(ks) |-> TRUE]] :
        ks \in DistinctSeqsUpTo(KeysOf(p), MaxFields)}
OmitArgs ==
    UNION {{[keys |-> ks, vals |-> bs] : bs \in [1..Len(ks) -> BOOLEAN]} :
              ks \in {<<>>, <<"a">>, <<"b">>, <<"c">>, <<"a", "b">>}}
ExtensionShapes ==
    {NoArg,
     [keys |-> <<"a">>, vals |-> <<number>>],
     [keys |-> <<"c">>, vals |-> <<string>>],
     [keys |-> <<"b", "a">>, vals |-> <<number, string>>]}
DeriveInputs ==
    {Null, Str("s"), Arr(<<>>), Obj(<<>>, <<>>),
     Obj(<<"a">>, <<Str("s")>>), Obj(<<"a">>, <<Num(1)>>),
     Obj(<<"a">>, <<Undef>>), Obj(<<"b">>, <<Str("s")>>),
     Obj(<<"a", "b">>, <<Str("s"), Num(1)>>),
     Obj(<<"a", "c">>, <<Num(1), Str("s")>>),
     Obj(<<"a">>, <<Obj(<<>>, <<>>)>>),
     Obj(<<"a", "b">>, <<Obj(<<"a">>, <<Str("s")>>), Str("s")>>)}

\* Schemas built without transform, to parse an output again: leaves,
\* containers and unions of them
PlainCandidates ==
    {object(<<"a">>, <<unknown>>),
     object(<<"a", "b">>, <<date, optional(number)>>),
     object(<<"a", "b">>, <<string, optional(string)>>),
     record(string), array(date), tuple(<<optional(number), date>>),
     date, nullable(string)}
PlainSchemas ==
    PlainCandidates
        \cup {union(ps) : ps \in SeqsUpTo(PlainCandidates, MaxCands)}
PlainInputs ==
    {Undef, Null, Num(5), Str("s"), Str("1970-01-01T00:00:00.002Z"), Date(1),
     Arr(<<>>), Arr(<<Num(5), Date(1)>>), Arr(<<Undef, Num(5)>>),
     Obj(<<>>, <<>>), Obj(<<"a">>, <<Str("s")>>), Obj(<<"a">>, <<Num(5)>>),
     Obj(<<"a", "b">>, <<Str("s"), Str("s")>>),
     Obj(<<"a", "b">>, <<Str("s"), Num(1)>>),
     Obj(<<"a", "b">>, <<Num(5), Str("s")>>),
     Obj(<<"b", "a">>, <<Num(1), Num(5)>>)}

\* Modifiers around one inner validator
InnerParsers ==
    {string, number, unknown, nulla, literal(Undef), nullable(number),
     transform(number, "void"), transform(string, "wrap")}
DefaultVals == {Num(7), Str("d"), Undef}
MapperNames == {"first", "wrap", "void"}
ModifierSchemas ==
    {optional(p) : p \in InnerParsers}
        \cup {nullable(p) : p \in InnerParsers}
        \cup {nullish(p) : p \in InnerParsers}
        \cup {default(p, d) : p \in InnerParsers, d \in DefaultVals}
        \cup {optionalDefault(p, d) : p \in InnerParsers, d \in DefaultVals}
        \cup {transform(p, f) : p \in InnerParsers, f \in MapperNames}
ModifierInputs == PrimVals \cup {Num(7), Str("d"), Arr(<<>>)}

\* Discriminated unions on the field "type": candidates with a tag
\* validator and one more field, and candidates that lack the tag field
TagParsers ==
    {literal(Str("add")), literal(Str("remove")), literal(Undef), string}
OtherParsers == {number, string}
ShapeCandidates ==
    {object(<<"type", "input">>, <<t, o>>) : t \in TagParsers, o \in OtherParsers}
        \cup {object(<<"input">>, <<o>>) : o \in OtherParsers}
DiscriminatedSchemas ==
    {discriminatedUnion("type", ps) : ps \in SeqsUpTo(ShapeCandidates, MaxCands)}
TagVals == {Absent, Undef, Str("add"), Str("remove"), Num(1)}
OtherVals == {Absent, Num(2), Str("x")}
TaggedObjects ==
    {Obj(SelectSeq(<<"type", "input">>,
                   LAMBDA k : (IF k = "type" THEN t ELSE o) # Absent),
         SelectSeq(<<t, o>>, LAMBDA x : x # Absent)) :
        t \in TagVals, o \in OtherVals}
DiscriminatedInputs == PrimVals \cup TaggedObjects \cup {Arr(<<>>)}

----------------------------------------------------------------------------
(* The state machine: a caller holds one schema and one input, configures  *)
(* the schema through its setters and calls parse.                         *)

\* The reference a holder takes to a node that was just built
Holding(p) == [then |-> p, now |-> p, same |-> TRUE, op |-> "", arg |-> NoArg]

Start(schemas, inputs) ==
    /\ schema \in schemas
    /\ input \in inputs
    /\ result = NoResult
    /\ last = "new"
    /\ promise = NoPromise
    /\ held = Holding(schema)

InitObject == Start(ObjectSchemas, ObjectInputs)
InitTuple == Start(TupleSchemas, TupleInputs)
InitArray == Start(ArraySchemas, ArrayInputs)
InitRecord == Start(RecordSchemas, RecordInputs)
InitUnion == Start(UnionSchemas, UnionInputs)
InitDiscriminated == Start(DiscriminatedSchemas, DiscriminatedInputs)
InitModifier == Start(ModifierSchemas, ModifierInputs)
InitLeaf == Start(LeafSchemas, LeafInputs)
InitDerive == Start(DeriveSchemas, DeriveInputs)
InitReparse == Start(PlainSchemas, PlainInputs)
InitShared == InitLeaf \/ InitArray \/ InitTuple
InitAsync == InitModifier \/ InitUnion \/ InitTuple

Init ==
    \/ InitObject \/ InitTuple \/ InitArray \/ InitRecord \/ InitUnion
    \/ InitDiscriminated \/ InitModifier \/ InitLeaf \/ InitDerive
    \/ InitReparse

\* schema.parse(input)
CallParse ==
    /\ result' = Parse(schema, input)
    /\ last' = "parse"
    /\ UNCHANGED <<schema, input, promise, held>>

\* schema.parse(result.out): the output of a successful parse is parsed
\* again, and is the input from then on
Reparse ==
    /\ last = "parse" /\ result.ok
    /\ input' = result.out
    /\ result' = Parse(schema, result.out)
    /\ last' = "reparse"
    /\ UNCHANGED <<schema, promise, held>>

\* schema.parseAsync(input)
CallParseAsync ==
    /\ promise' = parseAsync(schema, input)
    /\ last' = "parseAsync"
    /\ UNCHANGED <<schema, input, result, held>>

\* The microtask that settles the promise of an async function: fulfilled
\* with what the body returned, rejected when the body threw
Settle ==
    /\ promise.state \in {"pending", "rejecting"}
    /\ promise' = [promise EXCEPT !.state = IF @ = "pending" THEN "fulfilled"
                                            ELSE "rejected"]
    /\ UNCHANGED <<schema, input, result, last, held>>

\* await of the promise: the caller gets the Result it was fulfilled with
Await ==
    /\ promise.state = "fulfilled"
    /\ last # "await"
    /\ result' = promise.value
    /\ last' = "await"
    /\ UNCHANGED <<schema, input, promise, held>>

\* A setter assigns to a field of the node and returns this: whoever holds
\* a reference to the object sees the assignment.  No Result is at hand
\* after it.
Configure(p) ==
    /\ schema' = p
    /\ held' = IF held.same THEN [held EXCEPT !.now = p] ELSE held
    /\ result' = NoResult
    /\ last' = "set"
    /\ UNCHANGED <<input, promise>>

\* A method of the held node that builds a new node p from it and leaves
\* the receiver as it is: the caller goes on with p
Derive(op, arg, p) ==
    /\ schema' = p
    /\ held' = [held EXCEPT !.same = FALSE, !.op = op, !.arg = arg]
    /\ result' = NoResult
    /\ last' = "derive"
    /\ UNCHANGED <<input, promise>>

\* held.optional() and held.transform(f)
CallOptional ==
    /\ held.same
    /\ Derive("optional", NoArg, optional(held.now))

CallTransform ==
    /\ held.same
    /\ \E f \in MapperNames :
          Derive("transform", NoArg, transform(held.now, f))

\* ArrayV.min / ArrayV.max / ArrayV.length
ArrayV_min(p, len) == [p EXCEPT !.min = {len}]
ArrayV_max(p, len) == [p EXCEPT !.max = {len}]
ArrayV_length(p, len) == [p EXCEPT !.len = {len}]

CallMin ==
    /\ schema.k = "array"
    /\ \E len \in LengthArgs : Configure(ArrayV_min(schema, len))

CallMax ==
    /\ schema.k = "array"
    /\ \E len \in LengthArgs : Configure(ArrayV_max(schema, len))

CallLength ==
    /\ schema.k = "array"
    /\ \E len \in LengthArgs : Configure(ArrayV_length(schema, len))

CallRest ==
    /\ schema.k = "tuple"
    /\ \E r \in RestParsers : Configure(TupleV_rest(schema, r))

\* StringV.min / StringV.max
StringV_min(p, len) == [p EXCEPT !.min = {len}]
StringV_max(p, len) == [p EXCEPT !.max = {len}]

\* NumberV.min / max / gt / gte / lt / lte, which differ in the field set
NumberV_bound(p, field, value) == [p EXCEPT ![field] = {value}]

\* NumberV.int / positive / nonpositive / negative / nonnegative / safe /
\* finite, which differ in the flag set
NumberV_flag(p, flag) == [p EXCEPT !.flags = @ \cup {flag}]

\* DateV.min / DateV.max
DateV_min(p, d) == [p EXCEPT !.min = {d}]
DateV_max(p, d) == [p EXCEPT !.max = {d}]

\* The number of refinements configured on a node
Refinements(p) ==
    Cardinality({f \in NumberBounds : p[f] # {}}) + Cardinality(p.flags)

CallStringMin ==
    /\ schema.k = "string" /\ Refinements(schema) < MaxSetters
    /\ \E len \in StringLengthArgs : Configure(StringV_min(schema, len))

CallStringMax ==
    /\ schema.k = "string" /\ Refinements(schema) < MaxSetters
    /\ \E len \in StringLengthArgs : Configure(StringV_max(schema, len))

CallNumberBound ==
    /\ schema.k = "number" /\ Refinements(schema) < MaxSetters
    /\ \E field \in NumberBounds, value \in NumberArgs :
          Configure(NumberV_bound(schema, field, value))

CallNumberFlag ==
    /\ schema.k = "number" /\ Refinements(schema) < MaxSetters
    /\ \E flag \in NumberFlags : Configure(NumberV_flag(schema, flag))

CallDateMin ==
    /\ schema.k = "date" /\ Refinements(schema) < MaxSetters
    /\ \E d \in DateArgs : Configure(DateV_min(schema, d))

CallDateMax ==
    /\ schema.k = "date" /\ Refinements(schema) < MaxSetters
    /\ \E d \in DateArgs : Configure(DateV_max(schema, d))

NextLeaf ==
    \/ CallParse
    \/ CallStringMin \/ CallStringMax
    \/ CallNumberBound \/ CallNumberFlag
    \/ CallDateMin \/ CallDateMax

\* held.pick(picked), held.omit(omit), held.extend(extensionShape) and
\* held.partial(); pick is called with names of declared fields
CallPick ==
    /\ held.same /\ schema.k = "object"
    /\ \E picked \in PickArgs(held.now) :
          Derive("pick", picked, ObjectV_pick(held.now, picked))

CallOmit ==
    /\ held.same /\ schema.k = "object"
    /\ \E omit \in OmitArgs :
          Derive("omit", omit, ObjectV_omit(held.now, omit))

CallExtend ==
    /\ held.same /\ schema.k = "object"
    /\ \E extensionShape \in ExtensionShapes :
          Derive("extend", extensionShape,
                 ObjectV_extend(held.now, extensionShape))

CallPartial ==
    /\ held.same /\ schema.k = "object"
    /\ Derive("partial", NoArg, ObjectV_partial(held.now))

NextDerive == CallParse \/ CallPick \/ CallOmit \/ CallExtend \/ CallPartial

NextReparse == CallParse \/ Reparse

NextShared ==
    \/ CallParse
    \/ CallStringMin \/ CallStringMax
    \/ CallNumberBound \/ CallNumberFlag
    \/ CallDateMin \/ CallDateMax
    \/ CallMin \/ CallMax \/ CallLength \/ CallRest
    \/ CallOptional \/ CallTransform

NextArray == CallParse \/ CallMin \/ CallMax \/ CallLength
NextTuple == CallParse \/ CallRest
NextAsync == CallParse \/ CallParseAsync \/ Settle \/ Await \/ CallRest
Next ==
    \/ CallParse \/ CallMin \/ CallMax \/ CallLength \/ CallRest
    \/ CallParseAsync \/ Settle \/ Await
    \/ CallStringMin \/ CallStringMax
    \/ CallNumberBound \/ CallNumberFlag
    \/ CallDateMin \/ CallDateMax
    \/ CallOptional \/ CallTransform
    \/ CallPick \/ CallOmit \/ CallExtend \/ CallPartial
    \/ Reparse

Spec == Init /\ [][Next]_vars
SpecObject == InitObject /\ [][CallParse]_vars
SpecTuple == InitTuple /\ [][NextTuple]_vars
SpecArray == InitArray /\ [][NextArray]_vars
SpecRecord == InitRecord /\ [][CallParse]_vars
SpecUnion == InitUnion /\ [][CallParse]_vars
SpecDiscriminated == InitDiscriminated /\ [][CallParse]_vars
SpecModifier == InitModifier /\ [][CallParse]_vars
SpecAsync == InitAsync /\ [][NextAsync]_vars
SpecLeaf == InitLeaf /\ [][NextLeaf]_vars
SpecDerive == InitDerive /\ [][NextDerive]_vars
SpecReparse == InitReparse /\ [][NextReparse]_vars
SpecShared == InitShared /\ [][NextShared]_vars

----------------------------------------------------------------------------
(* What the claims are stated with. *)

\* The least member of a non-empty set of numbers
Least(S) == CHOOSE n \in S : \A m \in S : n <= m

\* The keys of a plain object, as a set
KeySet(o) == {o.keys[i] : i \in 1..Len(o.keys)}

\* A value that ObjectV takes for a keyed collection
Keyed(v) == v.t \in {"object", "array"}

\* The positions of the declared fields of shape p whose validator rejects
\* what value holds under the field's name
FailingFields(p, value) ==
    {i \in 1..Len(p.keys) : ~Parse(p.kids[i], GetProp(value, p.keys[i])).ok}

\* The names of the failing fields, in declaration order
RECURSIVE FailingNames(_, _, _)
FailingNames(p, value, i) ==
    IF i > Len(p.keys) THEN <<>>
    ELSE (IF i \in FailingFields(p, value) THEN <<p.keys[i]>> ELSE <<>>)
         \o FailingNames(p, value, i + 1)

\* The field names an object error names: what stands before each ": "
RECURSIVE NamedFields(_)
NamedFields(err) ==
    IF Len(err) < 2 THEN <<>>
    ELSE (IF err[2] = ": " THEN <<err[1]>> ELSE <<>>) \o NamedFields(Tail(err))

----------------------------------------------------------------------------
(* ObjectV: claims C1 to C4, checked under SpecObject. *)

\* C1: ObjectV.parse on a keyed input fails exactly when at least one
\* declared field is rejected, and the error then names every failing
\* field, in field-declaration order (so both of two failing fields, not
\* only the first).
C1_AllFieldErrorsInOrder ==
    (last = "parse" /\ schema.k = "object" /\ Keyed(input)) =>
        /\ result.ok <=> FailingFields(schema, input) = {}
        /\ ~result.ok =>
              NamedFields(result.err) = FailingNames(schema, input, 1)

\* C1 witness: a parse that failed on two declared fields at once
C1_Witness ==
    /\ last = "parse" /\ schema.k = "object" /\ Keyed(input)
    /\ Cardinality(FailingFields(schema, input)) >= 2
    /\ ~result.ok

\* C2: when every declared field validates, parse succeeds with an output
\* whose keys are exactly the declared field names, each mapped to the
\* output of its field's validator; undeclared input properties are absent.
C2_OutputIsDeclaredFields ==
    (last = "parse" /\ schema.k = "object" /\ Keyed(input)
        /\ FailingFields(schema, input) = {}) =>
        /\ result.ok
        /\ result.out.t = "object"
        /\ KeySet(result.out) = KeySet(schema)
        /\ Len(result.out.keys) = Len(schema.keys)
        /\ \A i \in 1..Len(schema.keys) :
              GetProp(result.out, schema.keys[i]) =
                  Parse(schema.kids[i], GetProp(input, schema.keys[i])).out

\* C2 witness: a successful parse of an input with an undeclared property,
\* with a declared field whose output is not the input's value
C2_Witness ==
    /\ last = "parse" /\ schema.k = "object" /\ result.ok
    /\ Len(schema.keys) = 2
    /\ KeySet(input) \ KeySet(schema) # {}
    /\ \E i \in 1..Len(schema.keys) :
          GetProp(result.out, schema.keys[i]) # GetProp(input, schema.keys[i])

\* C3: a declared field the input lacks is validated as if the input held
\* undefined under it: it fails, and is named, exactly when its validator
\* rejects undefined (never when the validator is an optional, a nullish or
\* a default), and the Result is the one of the same input with the
\* property set to undefined.
C3_MissingIsUndefined ==
    (last = "parse" /\ schema.k = "object" /\ Keyed(input)) =>
        \A i \in 1..Len(schema.keys) :
            schema.keys[i] \notin KeySet(input) =>
                LET key == schema.keys[i]
                    named == \E j \in 1..Len(NamedFields(result.err)) :
                                 NamedFields(result.err)[j] = key
                    explicit == ObjectV_parse(schema, SetProp(input, key, Undef))
                IN  /\ named <=> ~Parse(schema.kids[i], Undef).ok
                    /\ schema.kids[i].k \in {"optional", "nullish"} => ~named
                    /\ schema.kids[i].f = "default" => ~named
                    /\ result.ok = explicit.ok
                    /\ result.out = explicit.out
                    /\ result.err = explicit.err

\* C3 witness: a parse of an object that lacks a required field and an
\* optional one
C3_Witness ==
    /\ last = "parse" /\ schema.k = "object" /\ input.t = "object"
    /\ \E i, j \in 1..Len(schema.keys) :
          /\ schema.keys[i] \notin KeySet(input)
          /\ schema.keys[j] \notin KeySet(input)
          /\ schema.kids[i].k = "string"
          /\ schema.kids[j].k = "optional"
    /\ result.err = <<schema.keys[1], ": ", "Not string">>

\* C4: ObjectV.parse fails for every input that is not a non-null,
\* non-sequence keyed collection (primitives, null, undefined, arrays),
\* whatever the declared fields.  The code lets arrays through.
C4_NonKeyedRejected ==
    (last = "parse" /\ schema.k = "object" /\ input.t # "object") => ~result.ok

----------------------------------------------------------------------------
(* TupleV: claims C5 and C6, checked under SpecTuple. *)

\* C5: a tuple of N fixed validators without a rest validator accepts a
\* sequence of length L iff L = N and every positional validator accepts
\* the element at its position; when L # N it fails with the length error
\* whatever the elements are; a non-sequence always fails.
C5_ExactLengthWithoutRest ==
    (last = "parse" /\ schema.k = "tuple" /\ schema.rest = <<>>) =>
        LET N == Len(schema.kids)
            L == Len(input.kids)
        IN  /\ ~IsArray(input) => ~result.ok
            /\ IsArray(input) =>
                  /\ result.ok <=>
                        /\ L = N
                        /\ \A i \in 1..N :
                              Parse(schema.kids[i], input.kids[i]).ok
                  /\ L # N => result.err = <<"Not exact length">>

\* C5 witness: a successful parse of a two-element array by a tuple of two
\* validators without rest
C5_Witness ==
    /\ last = "parse" /\ schema.k = "tuple" /\ schema.rest = <<>>
    /\ IsArray(input) /\ Len(input.kids) = 2 /\ Len(schema.kids) = 2
    /\ result.ok

\* C6: a tuple with N fixed validators and a rest validator accepts a
\* sequence of length L only if L >= N, and its output then has length L;
\* a sequence shorter than the fixed prefix is rejected even when the
\* validators of the missing positions accept undefined.  The code has no
\* length check when a rest validator is set.
C6_RestNeedsFixedPrefix ==
    (last = "parse" /\ schema.k = "tuple" /\ schema.rest # <<>>
        /\ IsArray(input) /\ result.ok) =>
        /\ Len(input.kids) >= Len(schema.kids)
        /\ Len(result.out.kids) = Len(input.kids)

----------------------------------------------------------------------------
(* ArrayV: claims C7 and C8, checked under SpecArray. *)

\* The positions (1-based) of the elements the element validator rejects
BadElements(p, value) ==
    {i \in 1..Len(value.kids) : ~Parse(p.kids[1], value.kids[i]).ok}

\* The values handed to the child validator by the calls a trace's parse
\* call made itself, in call order
RECURSIVE Validated(_)
Validated(log) ==
    IF log = <<>> THEN <<>>
    ELSE (IF log[1].d = 1 /\ log[1].ev = "parse" THEN <<log[1].v>> ELSE <<>>)
         \o Validated(Tail(log))

\* C7: ArrayV.parse validates the elements in index order and stops at the
\* first failing one: the elements validated are a prefix of the input that
\* ends with the first rejected element, whose (smallest) index the error
\* carries, and nothing after it is validated; without length constraints a
\* rejected element always makes the parse fail.  On success the output is
\* an array as long as the input whose i-th entry is the element
\* validator's output for the i-th element.
C7_StopsAtFirstBadElement ==
    (last = "parse" /\ schema.k = "array" /\ IsArray(input)) =>
        LET bad == BadElements(schema, input)
            seen == Validated(result.log)
            elem == schema.kids[1]
        IN  /\ seen = SubSeq(input.kids, 1, Len(seen))
            /\ result.ok =>
                  /\ bad = {}
                  /\ IsArray(result.out)
                  /\ Len(result.out.kids) = Len(input.kids)
                  /\ seen = input.kids
                  /\ \A i \in 1..Len(input.kids) :
                        result.out.kids[i] = Parse(elem, input.kids[i]).out
            /\ (~result.ok /\ seen # <<>>) =>
                  /\ bad # {}
                  /\ Len(seen) = Least(bad)
                  /\ result.err =
                        <<"index: ", ToString(Least(bad) - 1), ", [">>
                        \o Parse(elem, input.kids[Least(bad)]).err \o <<"]">>
            /\ (bad # {} /\ schema.min = {} /\ schema.max = {}
                    /\ schema.len = {}) => (~result.ok /\ seen # <<>>)

\* C7 witness: a parse of a three-element array that failed on the second
\* element, the third being invalid too
C7_Witness ==
    /\ last = "parse" /\ schema.k = "array" /\ IsArray(input)
    /\ Len(input.kids) = 3
    /\ BadElements(schema, input) = {2, 3}
    /\ ~result.ok
    /\ result.err[2] = "1"

\* C8: for an array validator with any subset of min(a), max(b), length(n)
\* set and an input array of length L whose elements are all valid, parse
\* succeeds iff (min unset or L >= a) and (max unset or L <= b) and (length
\* unset or L = n).  The code rejects L = n and accepts L # n.
C8_LengthConstraints ==
    (last = "parse" /\ schema.k = "array" /\ IsArray(input)
        /\ BadElements(schema, input) = {}) =>
        LET L == Len(input.kids)
        IN  result.ok <=>
                /\ \A a \in schema.min : L >= a
                /\ \A b \in schema.max : L <= b
                /\ \A n \in schema.len : L = n

----------------------------------------------------------------------------
(* RecordV: claim C9, checked under SpecRecord. *)

\* The positions, in the order for-in visits the keys, of the values the
\* value validator rejects
BadValues(p, value) ==
    {i \in 1..Len(value.keys) : ~Parse(p.kids[1], value.kids[i]).ok}

\* C9: RecordV.parse rejects null, arrays and non-objects; for a keyed
\* input it succeeds iff the value validator accepts the value under every
\* key, the output then having exactly the input's keys, each mapped to the
\* value validator's output; it stops at the first key whose value is
\* rejected, returning that value's failure.
C9_RecordValues ==
    (last = "parse" /\ schema.k = "record") =>
        IF input.t # "object" THEN ~result.ok
        ELSE LET bad == BadValues(schema, input)
                 seen == Validated(result.log)
                 vp == schema.kids[1]
             IN  /\ result.ok <=> bad = {}
                 /\ result.ok =>
                       /\ result.out.t = "object"
                       /\ KeySet(result.out) = KeySet(input)
                       /\ Len(result.out.keys) = Len(input.keys)
                       /\ seen = input.kids
                       /\ \A i \in 1..Len(input.keys) :
                             GetProp(result.out, input.keys[i]) =
                                 Parse(vp, input.kids[i]).out
                 /\ ~result.ok =>
                       /\ seen = SubSeq(input.kids, 1, Least(bad))
                       /\ result.err = Parse(vp, input.kids[Least(bad)]).err

\* C9 witness: a parse of a two-key object that stopped at its first key
C9_Witness ==
    /\ last = "parse" /\ schema.k = "record" /\ input.t = "object"
    /\ Len(input.keys) = 2
    /\ BadValues(schema, input) = {1}
    /\ ~result.ok
    /\ Len(Validated(result.log)) = 1

----------------------------------------------------------------------------
(* UnionV: claim C10, checked under SpecUnion. *)

\* The positions of the candidates that accept the value
Accepting(p, value) == {i \in 1..Len(p.kids) : Parse(p.kids[i], value).ok}

\* The nodes whose parse was called by the call a trace belongs to
RECURSIVE Consulted(_)
Consulted(log) ==
    IF log = <<>> THEN <<>>
    ELSE (IF log[1].d = 1 /\ log[1].ev = "parse" THEN <<log[1].p>> ELSE <<>>)
         \o Consulted(Tail(log))

\* C10: UnionV.parse is first-match: when some candidate accepts the input,
\* the result is that of the lowest-indexed accepting candidate (its output,
\* transform included) even when a later one accepts too, and no candidate
\* after it is consulted.
C10_FirstMatch ==
    (last = "parse" /\ schema.k = "union"
        /\ Accepting(schema, input) # {}) =>
        LET first == Least(Accepting(schema, input))
            res == Parse(schema.kids[first], input)
        IN  /\ result.ok
            /\ result.out = res.out
            /\ result.err = res.err
            /\ Consulted(result.log) = SubSeq(schema.kids, 1, first)

\* C10 witness: a parse by union([literal(1) -> "first", number ->
\* "second"]) of 1, which both candidates accept with different outputs
C10_Witness ==
    /\ last = "parse" /\ schema.k = "union"
    /\ Accepting(schema, input) = {1, 2}
    /\ Parse(schema.kids[1], input).out # Parse(schema.kids[2], input).out
    /\ schema.kids[1].kids = <<literal(Num(1))>>
    /\ result.out = Str("first")

\* C11: UnionV.parse fails iff every candidate rejects the input, and the
\* error is then the one generic no-match error, not a candidate's own; a
\* union without candidates fails for every input.
C11_NoMatchIsGeneric ==
    (last = "parse" /\ schema.k = "union") =>
        /\ ~result.ok <=> Accepting(schema, input) = {}
        /\ ~result.ok =>
              /\ result.err = <<"Not in or">>
              /\ Consulted(result.log) = schema.kids
        /\ schema.kids = <<>> => ~result.ok

\* C11 witness: a failed parse by a union of two candidates whose own
\* errors differ from each other and from the union's
C11_Witness ==
    /\ last = "parse" /\ schema.k = "union" /\ ~result.ok
    /\ Len(schema.kids) = 2
    /\ Parse(schema.kids[1], input).err # Parse(schema.kids[2], input).err
    /\ Parse(schema.kids[2], input).err # result.err

----------------------------------------------------------------------------
(* DiscriminatedUnionV: claims C12 and C13, checked under                  *)
(* SpecDiscriminated.                                                      *)

\* What the value holds under the discriminator of p
TagOf(p, value) == GetProp(value, p.disc)

\* A plain object: keyed, neither null nor an array
PlainObject(v) == v.t = "object"

\* The positions of the candidates that declare the discriminator field
\* with a validator that accepts the value's tag
TagMatches(p, value) ==
    {i \in 1..Len(p.kids) :
        /\ ObjectV_field(p.kids[i], p.disc) # <<>>
        /\ Parse(ObjectV_field(p.kids[i], p.disc)[1], TagOf(p, value)).ok}

\* The nodes that the call a trace belongs to handed the whole value to
RECURSIVE FullParses(_, _)
FullParses(log, value) ==
    IF log = <<>> THEN <<>>
    ELSE (IF log[1].d = 1 /\ log[1].ev = "parse" /\ log[1].v = value
          THEN <<log[1].p>> ELSE <<>>)
         \o FullParses(Tail(log), value)

\* The Result of the first candidate whose tag validator accepts the tag
RoutedResult(p, value) == Parse(p.kids[Least(TagMatches(p, value))], value)

\* C12 as stated: on a keyed input whose tag value some candidate's tag
\* validator accepts, the result is the full parse of the input by the
\* first such candidate, and no other candidate parses the input.
C12_RoutesToFirstTagMatch_AnyTag ==
    (last = "parse" /\ schema.k = "discriminatedUnion" /\ PlainObject(input)
        /\ TagMatches(schema, input) # {}) =>
        /\ result.ok = RoutedResult(schema, input).ok
        /\ result.out = RoutedResult(schema, input).out
        /\ result.err = RoutedResult(schema, input).err
        /\ FullParses(result.log, input)
               = <<schema.kids[Least(TagMatches(schema, input))]>>

\* C12: on a keyed input whose tag value is not undefined and is accepted
\* by some candidate's tag validator, DiscriminatedUnionV.parse returns the
\* result of the full parse of the input by the first such candidate, also
\* when that candidate rejects the input, and no other candidate parses the
\* input; an undefined tag value fails as a missing discriminator key even
\* when a tag validator accepts undefined.
C12_RoutesToFirstTagMatch ==
    (last = "parse" /\ schema.k = "discriminatedUnion" /\ PlainObject(input)
        /\ TagMatches(schema, input) # {}) =>
        IF TagOf(schema, input) # Undef
        THEN /\ result.ok = RoutedResult(schema, input).ok
             /\ result.out = RoutedResult(schema, input).out
             /\ result.err = RoutedResult(schema, input).err
             /\ FullParses(result.log, input)
                    = <<schema.kids[Least(TagMatches(schema, input))]>>
        ELSE /\ ~result.ok
             /\ result.err = <<"Discriminator key '", schema.disc, "' not found">>
             /\ FullParses(result.log, input) = <<>>

\* C12 witness: the tag is accepted by both candidates, the first rejects
\* the input on its other field and the second would accept it
C12_Witness ==
    /\ last = "parse" /\ schema.k = "discriminatedUnion" /\ PlainObject(input)
    /\ TagOf(schema, input) # Undef
    /\ TagMatches(schema, input) = {1, 2}
    /\ ~Parse(schema.kids[1], input).ok
    /\ Parse(schema.kids[2], input).ok
    /\ ~result.ok

\* The input has no property named by the discriminator
LacksTag(p, value) == p.disc \notin KeySet(value)

\* The no-match error of DiscriminatedUnionV.parse for a tag value
NoParserFound(tag) ==
    <<"No parser found for discriminator value: ", JSString(tag)>>

\* C13 as stated: the parse fails without a full parse by any candidate
\* when the input is not a keyed collection, lacks the tag field, or has a
\* tag value that no tag validator accepts; in the last case the error
\* names the tag value.
C13_FailsBeforeFullParse_AnyTag ==
    (last = "parse" /\ schema.k = "discriminatedUnion") =>
        /\ (~PlainObject(input) \/ LacksTag(schema, input)
                \/ TagMatches(schema, input) = {}) =>
              /\ ~result.ok
              /\ FullParses(result.log, input) = <<>>
        /\ (PlainObject(input) /\ ~LacksTag(schema, input)
                /\ TagMatches(schema, input) = {}) =>
              result.err = NoParserFound(TagOf(schema, input))

\* C13: DiscriminatedUnionV.parse fails without a full parse by any
\* candidate when the input is not a keyed collection (primitive, null,
\* array), when it lacks the tag field or holds undefined under it, or when
\* no candidate's tag validator accepts the tag value; in the last case,
\* for a tag value other than undefined, the error names the tag value,
\* and an undefined tag value is reported as a missing discriminator key.
C13_FailsBeforeFullParse ==
    (last = "parse" /\ schema.k = "discriminatedUnion") =>
        /\ (~PlainObject(input) \/ TagOf(schema, input) = Undef
                \/ TagMatches(schema, input) = {}) =>
              /\ ~result.ok
              /\ FullParses(result.log, input) = <<>>
        /\ (PlainObject(input) /\ TagOf(schema, input) # Undef
                /\ TagMatches(schema, input) = {}) =>
              result.err = NoParserFound(TagOf(schema, input))
        /\ (PlainObject(input) /\ TagOf(schema, input) = Undef) =>
              result.err = <<"Discriminator key '", schema.disc, "' not found">>
        /\ input.t \in {"undefined", "boolean", "number", "string"} =>
              result.err = <<"Not object">>
        /\ input = Null => result.err = <<"Empty object">>
        /\ IsArray(input) => result.err = <<"Array">>

\* C13 witness: a tag that neither of two candidates' tag validators
\* accepts, after both were asked
C13_Witness ==
    /\ last = "parse" /\ schema.k = "discriminatedUnion" /\ PlainObject(input)
    /\ TagOf(schema, input) = Num(1)
    /\ Len(constructDiscriminatorParsers(schema, 1)) = 2
    /\ Len(result.log) = 3
    /\ result.err = NoParserFound(Num(1))

----------------------------------------------------------------------------
(* Modifier combinators: claims C14 to C17, checked under SpecModifier.    *)

\* The validator a modifier node wraps: p of optional(p), nullable(p),
\* nullish(p), optional(p, d) and p.transform(f), and p of p.default(d),
\* which is an optional(p) under a transform
IsDefault(m) == m.k = "transform" /\ m.f = "default"
Inner(m) == IF IsDefault(m) THEN m.kids[1].kids[1] ELSE m.kids[1]

\* The inputs a modifier answers itself, without asking the inner validator
Sentinels(m) ==
    CASE m.k = "optional" -> {Undef}
      [] m.k = "nullable" -> {Null}
      [] m.k = "nullish" -> {Null, Undef}
      [] m.k = "optionalDefault" -> {Undef}
      [] IsDefault(m) -> {Undef}
      [] OTHER -> {}

\* The values a trace's calls, at any depth, handed to the parse of node p
RECURSIVE HandedTo(_, _)
HandedTo(log, p) ==
    IF log = <<>> THEN <<>>
    ELSE (IF log[1].d >= 1 /\ log[1].ev = "parse" /\ log[1].p = p
          THEN <<log[1].v>> ELSE <<>>)
         \o HandedTo(Tail(log), p)

\* The values the mapper of the node a trace belongs to was called with
RECURSIVE MapperCalls(_)
MapperCalls(log) ==
    IF log = <<>> THEN <<>>
    ELSE (IF log[1].d = 1 /\ log[1].ev = "map" THEN <<log[1].v>> ELSE <<>>)
         \o MapperCalls(Tail(log))

\* Two Results agree in everything the caller sees
SameResult(r, q) == r.ok = q.ok /\ r.out = q.out /\ r.err = q.err

\* C14: optional(p) succeeds with undefined on undefined only, nullable(p)
\* with null on null only, nullish(p) with null on null and undefined on
\* undefined, each without asking p; every other input (null for optional,
\* undefined for nullable among them) is handed to p, whose Result is
\* returned.
C14_OwnSentinelsOnly ==
    (last = "parse" /\ schema.k \in {"optional", "nullable", "nullish"}) =>
        /\ input \in Sentinels(schema) =>
              /\ result.ok
              /\ result.out = input
              /\ Consulted(result.log) = <<>>
        /\ input \notin Sentinels(schema) =>
              /\ SameResult(result, Parse(Inner(schema), input))
              /\ Consulted(result.log) = <<Inner(schema)>>

\* C14 witness: a nullable handed undefined, which its inner validator
\* rejects
C14_Witness ==
    /\ last = "parse" /\ schema.k = "nullable" /\ input = Undef
    /\ Consulted(result.log) = <<Inner(schema)>>
    /\ ~result.ok

\* C15 as stated: p.default(d) and the older optional(p, d) succeed with d
\* on undefined without p seeing d, and return p's own result for any other
\* input.
C15_DefaultOnUndefined_OwnResult ==
    (last = "parse" /\ (IsDefault(schema) \/ schema.k = "optionalDefault")) =>
        /\ input = Undef =>
              /\ result.ok
              /\ result.out = schema.lit
              /\ HandedTo(result.log, Inner(schema)) = <<>>
        /\ input # Undef => SameResult(result, Parse(Inner(schema), input))

\* C15: p.default(d) and the older optional(p, d) succeed with d on
\* undefined without p seeing d, so also when p rejects d.  For any other
\* input the older optional(p, d) returns p's own result, and p.default(d)
\* returns p's own result unless p succeeds with undefined, in which case it
\* succeeds with d.
C15_DefaultOnUndefined ==
    (last = "parse" /\ (IsDefault(schema) \/ schema.k = "optionalDefault")) =>
        LET own == Parse(Inner(schema), input)
        IN  /\ input = Undef =>
                  /\ result.ok
                  /\ result.out = schema.lit
                  /\ HandedTo(result.log, Inner(schema)) = <<>>
            /\ input # Undef =>
                  IF IsDefault(schema) /\ own.ok /\ own.out = Undef
                  THEN result.ok /\ result.out = schema.lit
                  ELSE SameResult(result, own)

\* C15 witness: a default that its own inner validator rejects, returned
\* for undefined
C15_Witness ==
    /\ last = "parse" /\ IsDefault(schema) /\ input = Undef
    /\ schema.lit # Undef
    /\ ~Parse(Inner(schema), schema.lit).ok
    /\ result.ok /\ result.out = schema.lit

\* C16: optional, nullable, nullish and default around p never suppress or
\* alter a failure of p: for an input that is not one of the wrapper's
\* sentinels the wrapper fails iff p fails, with p's error unchanged.
C16_InnerFailureUnchanged ==
    (last = "parse"
        /\ (schema.k \in {"optional", "nullable", "nullish"} \/ IsDefault(schema))
        /\ input \notin Sentinels(schema)) =>
        LET own == Parse(Inner(schema), input)
        IN  /\ ~result.ok <=> ~own.ok
            /\ ~own.ok => result.err = own.err /\ result.err # <<>>

\* C16 witness: a default whose inner validator rejects null
C16_Witness ==
    /\ last = "parse" /\ IsDefault(schema) /\ input = Null
    /\ Inner(schema) = string
    /\ result.err = <<"Not string">>

\* C17: p.transform(f).parse(x) succeeds with f(p's output) whenever p
\* accepts x and returns p's failure unchanged whenever p rejects x; f is
\* called exactly once, with p's output, on success and never on failure.
C17_TransformMapsOnce ==
    (last = "parse" /\ schema.k = "transform") =>
        LET own == Parse(schema.kids[1], input)
        IN  /\ result.ok <=> own.ok
            /\ own.ok =>
                  /\ MapperCalls(result.log) = <<own.out>>
                  /\ schema.f = "first" => result.out = Str("first")
                  /\ schema.f = "wrap" => result.out = Arr(<<own.out>>)
                  /\ schema.f = "void" => result.out = Undef
                  /\ schema.f = "default" =>
                        result.out = (IF own.out = Undef THEN schema.lit
                                      ELSE own.out)
            /\ ~own.ok =>
                  /\ MapperCalls(result.log) = <<>>
                  /\ SameResult(result, own)

\* C17 witness: a mapper applied once to the output of an inner transform,
\* which is not the input
C17_Witness ==
    /\ last = "parse" /\ schema.k = "transform" /\ schema.f = "wrap"
    /\ schema.kids[1].k = "transform"
    /\ result.ok
    /\ result.out # Arr(<<input>>)
    /\ Len(MapperCalls(result.log)) = 1

----------------------------------------------------------------------------
(* parseAsync: claim C18, checked under SpecAsync.                         *)

----------------------------------------------------------------------------
(* Leaf validators: claims C19 and C20, checked under SpecLeaf.            *)

\* The leaf validators that check a runtime type
TypedLeaves == {"boolean", "string", "number", "date", "null"}

\* A date-like value: a valid Date, a finite timestamp within the range of
\* Date, or a string that is a date; null and booleans are not date-like
DateLike(v) ==
    \/ v.t = "date" /\ v.s = ""
    \/ v.t = "number" /\ v.s \in {"", ".5"}
    \/ v.t = "string" /\ v.s = "1970-01-01T00:00:00.002Z"

\* The value has the runtime type the leaf is declared for
TypeMatches(p, v) ==
    CASE p.k = "boolean" -> v.t = "boolean"
      [] p.k = "string" -> v.t = "string"
      [] p.k = "number" -> v.t = "number"
      [] p.k = "null" -> v.t = "null"
      [] p.k = "date" -> DateLike(v)
      [] OTHER -> TRUE

\* The type-mismatch error of a leaf
TypeMismatch(p) ==
    CASE p.k = "boolean" -> <<"Not boolean">>
      [] p.k = "string" -> <<"Not string">>
      [] p.k = "number" -> <<"Not number">>
      [] p.k = "null" -> <<"Not null">>
      [] p.k = "date" -> <<"Invalid date format">>
      [] OTHER -> <<>>

\* C19: for every leaf validator (boolean, string, number, date, null),
\* whatever refinements are configured, an input whose runtime type is not
\* the leaf's fails with the leaf's type-mismatch error and never with a
\* bound or refinement error; for date that includes null and booleans.
C19_TypeMismatchNotConstraint ==
    (last = "parse" /\ schema.k \in TypedLeaves
        /\ ~TypeMatches(schema, input)) =>
        /\ ~result.ok
        /\ result.err = TypeMismatch(schema)

\* Twice a finite number, which is an integer for n and for n + 0.5
Twice(v) == IF v.s = ".5" THEN 2 * v.n + 1 ELSE 2 * v.n

\* The order of a number and an integer m, stated on the number line: NaN
\* is neither above nor below nor equal to anything
Above(v, m) ==
    \/ v.s \in {"", ".5"} /\ Twice(v) > 2 * m
    \/ v.s \in {"Infinity", "9007199254740992"}
Below(v, m) ==
    \/ v.s \in {"", ".5"} /\ Twice(v) < 2 * m
    \/ v.s = "-Infinity"
Equal(v, m) == v.s = "" /\ v.n = m

\* The number meets every refinement configured on the number validator p
MeetsRefinements(p, v) ==
    /\ \A m \in p.gt : Above(v, m)
    /\ \A m \in p.gte : Above(v, m) \/ Equal(v, m)
    /\ \A m \in p.lt : Below(v, m)
    /\ \A m \in p.lte : Below(v, m) \/ Equal(v, m)
    /\ \A m \in p.min : Above(v, m) \/ Equal(v, m)
    /\ \A m \in p.max : Below(v, m) \/ Equal(v, m)
    /\ "int" \in p.flags => v.s \in {"", "9007199254740992"}
    /\ "safe" \in p.flags => v.s = ""
    /\ "finite" \in p.flags => v.s \in {"", ".5", "9007199254740992"}
    /\ "positive" \in p.flags => Above(v, 0)
    /\ "nonpositive" \in p.flags => Below(v, 0) \/ Equal(v, 0)
    /\ "negative" \in p.flags => Below(v, 0)
    /\ "nonnegative" \in p.flags => Above(v, 0) \/ Equal(v, 0)

\* The time of the Date a date-like value stands for: the time of a Date,
\* the whole milliseconds of a timestamp, the instant a date string names
TimeOf(v) == IF v.t = "string" THEN 2 ELSE v.n

\* C20: a leaf validator handed an input of its declared type that meets
\* every configured bound succeeds with the input itself as output (for
\* date, with the Date the input coerces to); unknown() succeeds for every
\* input with the input unchanged, literal(l) succeeds exactly on the
\* inputs strictly equal to l, and nulla() exactly on null.
C20_ValidInputUnchanged ==
    last = "parse" =>
        /\ (schema.k = "boolean" /\ input.t = "boolean") =>
              result.ok /\ result.out = input
        /\ (schema.k = "string" /\ input.t = "string"
                /\ (\A m \in schema.min : Len(input.s) >= m)
                /\ (\A m \in schema.max : Len(input.s) <= m)) =>
              result.ok /\ result.out = input
        /\ (schema.k = "number" /\ input.t = "number"
                /\ MeetsRefinements(schema, input)) =>
              result.ok /\ result.out = input
        /\ (schema.k = "date" /\ DateLike(input)
                /\ (\A m \in schema.min : TimeOf(input) >= m.n)
                /\ (\A m \in schema.max : TimeOf(input) <= m.n)) =>
              result.ok /\ result.out = Date(TimeOf(input))
        /\ schema.k = "unknown" => result.ok /\ result.out = input
        /\ schema.k = "literal" =>
              /\ result.ok <=> (input = schema.lit /\ input # NaN)
              /\ result.ok => result.out = input
        /\ schema.k = "null" =>
              /\ result.ok <=> input = Null
              /\ result.ok => result.out = input

\* C20 witness: a string as long as both its bounds allow, after both
\* setters were called
C20_Witness ==
    /\ last = "parse" /\ schema.k = "string" /\ input = Str("ab")
    /\ schema.min = {2} /\ schema.max = {2}
    /\ result.ok /\ result.out = input

----------------------------------------------------------------------------
(* Shared nodes: claim C21, checked under SpecShared.                      *)

\* C21: a node is immutable after it was built: whatever is called later on
\* a reference to it or on a node derived from it (parse, the setters,
\* rest, transform, optional), parse on the reference returns for the same
\* input what it returned when the reference was taken.
C21_NodeImmutable ==
    SameResult(Parse(held.now, input), Parse(held.then, input))

----------------------------------------------------------------------------
(* ObjectV derivations: claims C22 and C23, checked under SpecDerive.      *)

\* The names an argument of pick or omit selects: those it holds true for
Selected(arg) == {arg.keys[i] : i \in {j \in 1..Len(arg.keys) : arg.vals[j]}}

\* The shape declares no name twice
NoDuplicateKeys(p) == Cardinality(KeysOf(p)) = Len(p.keys)

Present(p, value, i) == GetProp(value, p.keys[i]) # Undef

\* C23: s.partial() makes every top-level field optional and nothing
\* deeper: on a keyed input it succeeds iff every declared field that is
\* present (not undefined) is accepted by the validator s has for it; the
\* empty object is accepted, and a present nested object must still hold
\* the fields its own validator requires.
C23_PartialIsShallow ==
    (last = "parse" /\ held.op = "partial" /\ Keyed(input)) =>
        LET s == held.now
        IN  /\ result.ok <=>
                  \A i \in 1..Len(s.keys) :
                      Present(s, input, i) =>
                          Parse(s.kids[i], GetProp(input, s.keys[i])).ok
            /\ input = Obj(<<>>, <<>>) => result.ok
            /\ \A i \in 1..Len(s.keys) :
                  /\ schema.kids[i] = optional(s.kids[i])
                  /\ schema.keys[i] = s.keys[i]
            /\ Len(schema.keys) = Len(s.keys)

\* C23 witness: a partial whose nested object field is present without the
\* field it requires
C23_Witness ==
    /\ last = "parse" /\ held.op = "partial"
    /\ \E i \in 1..Len(held.now.keys) :
          /\ held.now.kids[i] = NestedShape
          /\ GetProp(input, held.now.keys[i]) = Obj(<<>>, <<>>)
    /\ ~result.ok

----------------------------------------------------------------------------
(* Parsing an output again: claim C24, checked under SpecReparse.          *)

\* Two values are equal as values: the same primitive, Dates of one time,
\* arrays of equal elements, objects that hold equal values under every
\* name (a property that holds undefined counts like a missing one)
RECURSIVE ValueEqual(_, _)
ValueEqual(a, b) ==
    IF a.t # b.t THEN FALSE
    ELSE IF a.t = "object"
    THEN \A k \in KeySet(a) \cup KeySet(b) :
             ValueEqual(GetProp(a, k), GetProp(b, k))
    ELSE IF a.t = "array"
    THEN /\ Len(a.kids) = Len(b.kids)
         /\ \A i \in 1..Len(a.kids) : ValueEqual(a.kids[i], b.kids[i])
    ELSE a = b

\* C24: for a schema built without transform and an input it accepts with
\* output y, parsing y against the same schema succeeds with an output
\* equal to y; also for unions of object validators.
C24_Idempotent ==
    last = "reparse" =>
        /\ result.ok
        /\ ValueEqual(result.out, input)


----------------------------------------------------------------------------
(* The Result contract: claim C25, checked under SpecLeaf.                 *)

\* C25: every parse call returns a Result: no exception is raised, a
\* success carries an out and no error, and a failure carries an error and
\* no out.
C25_AlwaysAResult ==
    last = "parse" =>
        /\ ~result.threw
        /\ result.ok => result.err = <<>>
        /\ ~result.ok => result.out = Undef /\ result.err # <<>>


----------------------------------------------------------------------------
(* The location of a failing child: claim C26, checked under SpecTuple.    *)

\* err holds the tag followed, later, by the whole of childErr
Located(err, tag, childErr) ==
    \E i \in 1..Len(err) :
        /\ err[i] = tag
        /\ \E j \in (i + 1)..Len(err) :
              /\ j + Len(childErr) - 1 <= Len(err)
              /\ SubSeq(err, j, j + Len(childErr) - 1) = childErr

\* C26: when a tuple rejects its input because the validator of a position
\* (fixed or rest) rejected the element there, the tuple's error holds the
\* index of that position followed by the child's error.  The code returns
\* the child's error alone.
C26_FailureNamesChild ==
    (last = "parse" /\ schema.k = "tuple" /\ ~result.ok
        /\ Validated(result.log) # <<>>) =>
        LET i == Len(Validated(result.log)) - 1
            parser == IF i < Len(schema.kids) THEN schema.kids[i + 1]
                      ELSE schema.rest[1]
        IN  Located(result.err, ToString(i),
                    Parse(parser, ElemAt(input, i)).err)


----------------------------------------------------------------------------
(* The refinements of a number: claims C27 and C28, checked under          *)
(* SpecLeaf.                                                               *)

\* The configured bounds and the configured domain checks a number fails
FailedBounds(p, value) ==
    {b \in NumberBounds :
        \/ b = "gt" /\ \E m \in p.gt : NumLE(value, m)
        \/ b = "gte" /\ \E m \in p.gte : NumLT(value, m)
        \/ b = "lt" /\ \E m \in p.lt : NumGE(value, m)
        \/ b = "lte" /\ \E m \in p.lte : NumGT(value, m)
        \/ b = "min" /\ \E m \in p.min : NumLT(value, m)
        \/ b = "max" /\ \E m \in p.max : NumGT(value, m)}
FailedDomains(p, value) ==
    {f \in p.flags :
        \/ f = "int" /\ ~NumIsInteger(value)
        \/ f = "safe" /\ ~NumIsSafeInteger(value)
        \/ f = "finite" /\ ~NumIsFinite(value)
        \/ f = "positive" /\ NumLE(value, 0)
        \/ f = "nonpositive" /\ NumGT(value, 0)
        \/ f = "negative" /\ NumGE(value, 0)
        \/ f = "nonnegative" /\ NumLT(value, 0)}

\* The errors of the bound checks begin with one of these
BoundErrors ==
    {"Number not gt ", "Number not gte ", "Number not lt ",
     "Number not lte ", "Number < ", "Number > "}

\* C27: NumberV.parse checks the configured bounds before the configured
\* domain checks: a number that fails a bound and a domain check is
\* rejected with the error of a bound.  The code checks int, safe and
\* finite before every bound.
C27_BoundsBeforeDomains ==
    (last = "parse" /\ schema.k = "number" /\ TypeOf(input) = "number"
        /\ FailedBounds(schema, input) # {}
        /\ FailedDomains(schema, input) # {}) =>
        /\ ~result.ok
        /\ result.err[1] \in BoundErrors


\* C28: for an integer input n, NumberV.parse succeeds, with n as its
\* output, exactly when n satisfies every configured refinement: n >= min,
\* n <= max, n > gt, n >= gte, n < lt, n <= lte, n > 0 when positive,
\* n <= 0 when nonpositive, n < 0 when negative, n >= 0 when nonnegative.
C28_IntegerRefinements ==
    (last = "parse" /\ schema.k = "number"
        /\ input.t = "number" /\ input.s = "") =>
        LET n == input.n
            p == schema
        IN  /\ result.ok <=>
                  /\ \A m \in p.min : n >= m
                  /\ \A m \in p.max : n <= m
                  /\ \A m \in p.gt : n > m
                  /\ \A m \in p.gte : n >= m
                  /\ \A m \in p.lt : n < m
                  /\ \A m \in p.lte : n <= m
                  /\ "positive" \in p.flags => n > 0
                  /\ "nonpositive" \in p.flags => n <= 0
                  /\ "negative" \in p.flags => n < 0
                  /\ "nonnegative" \in p.flags => n >= 0
            /\ result.ok => result.out = input

\* The boundary itself is rejected by gt
C28_Witness ==
    /\ last = "parse" /\ schema.k = "number" /\ input = Num(1)
    /\ schema.gt = {1} /\ schema.flags = {"nonnegative"}
    /\ ~result.ok


----------------------------------------------------------------------------
(* The output of default: claim C29, checked under SpecModifier.           *)

\* C29: for a default d that is not undefined, p.default(d) never succeeds
\* with undefined: whenever its optional stage yields undefined, for the
\* input undefined or because p itself succeeded with undefined, the
\* output is d, and every other output of the stage is passed on.
C29_DefaultNeverUndefined ==
    (last = "parse" /\ IsDefault(schema) /\ schema.lit # Undef) =>
        LET stage == Parse(schema.kids[1], input)
        IN  /\ result.ok => result.out # Undef
            /\ result.ok <=> stage.ok
            /\ (stage.ok /\ stage.out = Undef) => result.out = schema.lit
            /\ (stage.ok /\ stage.out # Undef) => result.out = stage.out

\* p succeeds with undefined on an input that is not undefined
C29_Witness ==
    /\ last = "parse" /\ IsDefault(schema) /\ schema.lit = Num(7)
    /\ input # Undef
    /\ Parse(Inner(schema), input).ok
    /\ Parse(Inner(schema), input).out = Undef
    /\ result.ok /\ result.out = Num(7)


----------------------------------------------------------------------------
(* Discriminated union against union: claim C30, checked under             *)
(* SpecDiscriminated.                                                      *)

\* Every candidate declares the tag field with a literal validator, and the
\* literals are pairwise distinct and none of them is undefined
DistinctLiteralTags(p) ==
    /\ \A i \in 1..Len(p.kids) :
          /\ ObjectV_field(p.kids[i], p.disc) # <<>>
          /\ ObjectV_field(p.kids[i], p.disc)[1].k = "literal"
          /\ ObjectV_field(p.kids[i], p.disc)[1].lit # Undef
    /\ \A i, j \in 1..Len(p.kids) :
          ObjectV_field(p.kids[i], p.disc) = ObjectV_field(p.kids[j], p.disc)
              => i = j

====
